---- MODULE Spec2Model ----
(***************************************************************************)
(* Translation request lifecycle of the App component                      *)
(* (frontend/src/App.jsx): the six useState slots, the click handler       *)
(* handleTranslationSubmit with its single suspension point (the awaited   *)
(* axios.post), the three onChange handlers and the translation provider   *)
(* as the environment that settles the awaited promise.                    *)
(***************************************************************************)
EXTENDS Integers, Sequences, FiniteSets, TLC

\* ---------------------------------------------------------------- bounds
\* longest text the user types
MaxLen == 2
\* cap on simultaneously awaited requests (never binding while the button
\* is disabled during a translation)
MaxOutstanding == 2

\* ------------------------------------------------------------ input data
SP == " "
Chars == {SP, "a"}
Texts == UNION {[1..n -> Chars] : n \in 0..MaxLen}
Langs == {"en", "es"}
TranslatedTexts == {"", "Hola"}
Messages == {"", "rate limited"}

\* ------------------------------------------------------- string literals
EMPTY_INPUT_MESSAGE == "Please enter some text."
NO_TRANSLATION == "No translation available."
GENERIC_FAILURE == "Failed to translate text. Please try again."

VARIABLES
    inputText,            \* useState("")
    originalLanguage,     \* useState("en")
    destinationLanguage,  \* useState("es")
    translationResult,    \* useState("")
    errorMessage,         \* useState("")
    isTranslating,        \* useState(false)
    requests,             \* axios.post calls the handler is awaiting
    event                 \* the handler or callback that ran last

vars == <<inputText, originalLanguage, destinationLanguage,
          translationResult, errorMessage, isTranslating, requests, event>>

\* --------------------------------------------------- String.prototype.trim
RECURSIVE TrimStart(_)
TrimStart(t) == IF t # <<>> /\ Head(t) = SP THEN TrimStart(Tail(t)) ELSE t

RECURSIVE TrimEnd(_)
TrimEnd(t) ==
    IF t # <<>> /\ t[Len(t)] = SP THEN TrimEnd(SubSeq(t, 1, Len(t) - 1)) ELSE t

Trim(t) == TrimEnd(TrimStart(t))

\* `!inputText.trim()`
IsBlankNoTrim(t) == t = <<>>
IsBlank(t) == Trim(t) = <<>>

\* ------------------------------------------------ what the provider does
\* A possibly-undefined string, as produced by property access and `?.`
Undefined == [defined |-> FALSE, v |-> ""]
Str(s) == [defined |-> TRUE, v |-> s]

Pending == [kind |-> "pending", val |-> ""]

\* the promise resolves: 200 with data {translated_text: val}, with data {},
\* or with data null
OkReplies ==
    {[kind |-> "ok_text", val |-> x] : x \in TranslatedTexts}
    \cup {[kind |-> "ok_nofield", val |-> ""], [kind |-> "ok_nulldata", val |-> ""]}

\* the promise rejects: non-2xx with data {message: val}, with data {}, with
\* no data, or no response at all (connection error, timeout)
ErrReplies ==
    {[kind |-> "err_msg", val |-> m] : m \in Messages}
    \cup {[kind |-> "err_nomsg", val |-> ""], [kind |-> "err_nodata", val |-> ""],
          [kind |-> "err_noresponse", val |-> ""]}

Replies == OkReplies \cup ErrReplies

\* `response.data.translated_text` of a resolved promise with non-null data
translated_text(reply) ==
    IF reply.kind = "ok_text" THEN Str(reply.val) ELSE Undefined

\* `err.response?.data?.message` of whatever the catch block caught
message(reply) ==
    IF reply.kind = "err_msg" THEN Str(reply.val) ELSE Undefined

\* JavaScript `a || d` on a possibly-undefined string
OrElseNullish(opt, d) == IF opt.defined THEN opt.v ELSE d
OrElse(opt, d) == IF opt.defined /\ opt.v # "" THEN opt.v ELSE d

\* the try block completes normally: the promise resolved and reading
\* `.translated_text` of response.data did not throw
TryCompletes(reply) == reply.kind \in {"ok_text", "ok_nofield"}

ResultOfSentinel(reply) == NO_TRANSLATION
ResultOf(reply) == OrElse(translated_text(reply), NO_TRANSLATION)

ErrorOfGeneric(reply) == GENERIC_FAILURE
ErrorOf(reply) == OrElse(message(reply), GENERIC_FAILURE)

RemoveAt(s, i) == SubSeq(s, 1, i - 1) \o SubSeq(s, i + 1, Len(s))

\* ------------------------------------------------------------------ Init
Init ==
    /\ inputText = <<>>
    /\ originalLanguage = "en"
    /\ destinationLanguage = "es"
    /\ translationResult = ""
    /\ errorMessage = ""
    /\ isTranslating = FALSE
    /\ requests = <<>>
    /\ event = "init"

\* ------------------------------------------------------ onChange handlers
SetInputTextClearsResult(t) ==
    /\ inputText' = t
    /\ translationResult' = ""
    /\ event' = "edit"
    /\ UNCHANGED <<originalLanguage, destinationLanguage, errorMessage,
                   isTranslating, requests>>

SetInputText(t) ==
    /\ inputText' = t
    /\ event' = "edit"
    /\ UNCHANGED <<originalLanguage, destinationLanguage, translationResult,
                   errorMessage, isTranslating, requests>>

SetOriginalLanguage(l) ==
    /\ originalLanguage' = l
    /\ event' = "edit"
    /\ UNCHANGED <<inputText, destinationLanguage, translationResult,
                   errorMessage, isTranslating, requests>>

SetDestinationLanguage(l) ==
    /\ destinationLanguage' = l
    /\ event' = "edit"
    /\ UNCHANGED <<inputText, originalLanguage, translationResult,
                   errorMessage, isTranslating, requests>>

\* ------------------------------------------------ handleTranslationSubmit
\* <button disabled={isTranslating}>
ButtonNeverDisabled == FALSE
ButtonDisabledWhileError == isTranslating \/ errorMessage # ""
ButtonDisabled == isTranslating

\* the body of the axios.post call
Payload ==
    [text |-> inputText,
     source_language |-> originalLanguage,
     target_language |-> destinationLanguage,
     reply |-> Pending]

\* input validation fails: one setErrorMessage, then return
SubmitBlank ==
    /\ ~ButtonDisabled
    /\ IsBlank(inputText)
    /\ errorMessage' = EMPTY_INPUT_MESSAGE
    /\ event' = "submit"
    /\ UNCHANGED <<inputText, originalLanguage, destinationLanguage,
                   translationResult, isTranslating, requests>>

SubmitValidKeepsError ==
    /\ ~isTranslating
    /\ Trim(inputText) # <<>>
    /\ Len(requests) < MaxOutstanding
    /\ translationResult' = ""
    /\ isTranslating' = TRUE
    /\ requests' = Append(requests,
                          [text |-> inputText,
                           source_language |-> originalLanguage,
                           target_language |-> destinationLanguage,
                           reply |-> [kind |-> "pending", val |-> ""]])
    /\ event' = "submit"
    /\ UNCHANGED <<inputText, originalLanguage, destinationLanguage, errorMessage>>

\* input validation passes: reset the displays, raise the flag, post and
\* suspend at the await
SubmitValid ==
    /\ ~ButtonDisabled
    /\ ~IsBlank(inputText)
    /\ Len(requests) < MaxOutstanding
    /\ errorMessage' = ""
    /\ translationResult' = ""
    /\ isTranslating' = TRUE
    /\ requests' = Append(requests, Payload)
    /\ event' = "submit"
    /\ UNCHANGED <<inputText, originalLanguage, destinationLanguage>>

\* the provider (or the network) settles the awaited promise
ProviderReply ==
    \E i \in DOMAIN requests, r \in Replies :
        /\ requests[i].reply = Pending
        /\ requests' = [requests EXCEPT ![i].reply = r]
        /\ event' = "reply"
        /\ UNCHANGED <<inputText, originalLanguage, destinationLanguage,
                       translationResult, errorMessage, isTranslating>>

\* finally { setIsTranslating(false) }
FinallyKeepsFlag == isTranslating' = isTranslating
Finally == isTranslating' = FALSE

ResumeRetries ==
    \E i \in DOMAIN requests :
        /\ requests[i].reply # Pending
        /\ IF requests[i].reply.kind \in {"ok_text", "ok_nofield"}
           THEN /\ translationResult' =
                     IF requests[i].reply.val # "" THEN requests[i].reply.val
                     ELSE NO_TRANSLATION
                /\ isTranslating' = FALSE
                /\ requests' = RemoveAt(requests, i)
                /\ UNCHANGED errorMessage
           ELSE /\ requests' = [requests EXCEPT ![i].reply = [kind |-> "pending", val |-> ""]]
                /\ UNCHANGED <<translationResult, errorMessage, isTranslating>>
        /\ event' = "settle"
        /\ UNCHANGED <<inputText, originalLanguage, destinationLanguage>>

\* the handler resumes after the await: try / catch / finally
Resume ==
    \E i \in DOMAIN requests :
        /\ requests[i].reply # Pending
        /\ IF TryCompletes(requests[i].reply)
           THEN /\ translationResult' = ResultOf(requests[i].reply)
                /\ UNCHANGED errorMessage
           ELSE /\ errorMessage' = ErrorOf(requests[i].reply)
                /\ UNCHANGED translationResult
        /\ Finally
        /\ requests' = RemoveAt(requests, i)
        /\ event' = "settle"
        /\ UNCHANGED <<inputText, originalLanguage, destinationLanguage>>

Next ==
    \/ \E t \in Texts : SetInputText(t)
    \/ \E l \in Langs : SetOriginalLanguage(l)
    \/ \E l \in Langs : SetDestinationLanguage(l)
    \/ SubmitBlank
    \/ SubmitValid
    \/ ProviderReply
    \/ Resume

Spec == Init /\ [][Next]_vars

\* The event loop runs the continuation of a settled promise; nothing makes
\* the provider answer and nothing makes the user act.
FairSpec == Spec /\ WF_vars(Resume)

TypeOK ==
    /\ inputText \in Texts
    /\ originalLanguage \in Langs
    /\ destinationLanguage \in Langs
    /\ translationResult \in TranslatedTexts \cup {NO_TRANSLATION}
    /\ errorMessage \in Messages \cup {EMPTY_INPUT_MESSAGE, GENERIC_FAILURE}
    /\ isTranslating \in BOOLEAN
    /\ Len(requests) <= MaxOutstanding
    /\ event \in {"init", "edit", "submit", "reply", "settle"}

\* ---------------------------------------------------------- properties
\* the step in which the handler resumed from awaiting requests[i]
Settled(i) ==
    /\ i \in DOMAIN requests
    /\ requests[i].reply # Pending
    /\ event' = "settle"
    /\ requests' = RemoveAt(requests, i)

\* C1: a submit whose text is empty after trimming, from any state, leaves
\* the empty-input error message displayed, the in-progress flag down and
\* issues no request to the provider.
C1_BlankSubmitFailsWithoutRequest ==
    [][(event' = "submit" /\ Trim(inputText) = <<>>)
        => /\ errorMessage' = EMPTY_INPUT_MESSAGE
           /\ isTranslating' = FALSE
           /\ requests' = requests]_vars

C1_Witness ==
    /\ event = "submit"
    /\ inputText = <<SP, SP>>
    /\ errorMessage = EMPTY_INPUT_MESSAGE
    /\ requests = <<>>

\* C3: in every reachable state at most one request to the provider is
\* outstanding.
C3_SingleFlight == Len(requests) <= 1

C3_Witness ==
    /\ Len(requests) = 1
    /\ requests[1].reply = Pending
    /\ event = "edit"
    /\ ButtonDisabled

\* C4: whenever an error message is displayed the translation result is
\* empty.
C4_ErrorReplacesResult == errorMessage # "" => translationResult = ""

\* C5: when the handler resumes from a request that succeeded with a
\* non-empty translated_text X, the result is exactly X, no error message is
\* displayed and the in-progress flag is false.
C5_SuccessShowsTranslatedText ==
    [][\A i \in DOMAIN requests :
        (/\ Settled(i)
         /\ requests[i].reply.kind = "ok_text"
         /\ requests[i].reply.val # "")
        => /\ translationResult' = requests[i].reply.val
           /\ errorMessage' = ""
           /\ isTranslating' = FALSE]_vars

C5_Witness ==
    /\ event = "settle"
    /\ translationResult = "Hola"
    /\ errorMessage = ""
    /\ ~isTranslating

C7_FailureShowsMessageVerbatim ==
    [][\A i \in DOMAIN requests :
        (Settled(i) /\ requests[i].reply \in ErrReplies)
        => /\ errorMessage' =
                IF requests[i].reply.kind = "err_msg"
                THEN requests[i].reply.val ELSE GENERIC_FAILURE
           /\ translationResult' = ""]_vars

\* C7 (amended): a failure whose body carries a non-empty message m displays
\* exactly m; a failure without response, body or message, or with an empty
\* message, displays the generic fallback; no translation result is shown.
C7_FailureShowsNonEmptyMessage ==
    [][\A i \in DOMAIN requests :
        (Settled(i) /\ requests[i].reply \in ErrReplies)
        => /\ errorMessage' =
                IF requests[i].reply.kind = "err_msg" /\ requests[i].reply.val # ""
                THEN requests[i].reply.val ELSE GENERIC_FAILURE
           /\ translationResult' = ""
           /\ isTranslating' = FALSE]_vars

C7_Witness ==
    /\ event = "settle"
    /\ errorMessage = "rate limited"
    /\ translationResult = ""
    /\ ~isTranslating

\* C8: every submission that is in flight eventually leaves that state,
\* also when the provider never responds.
C8_InFlightEventuallyLeaves == isTranslating ~> ~isTranslating

\* C9: the request issued by a valid submit carries the trimmed text and
\* the source and target codes as entered.
C9_RequestCarriesTrimmedText ==
    [][(event' = "submit" /\ Len(requests') = Len(requests) + 1)
        => LET r == requests'[Len(requests')]
           IN /\ r.text = Trim(inputText)
              /\ r.source_language = originalLanguage
              /\ r.target_language = destinationLanguage]_vars

\* C10: the in-progress flag is true exactly when the handler is awaiting a
\* request to the provider.
C10_FlagIffOutstanding == isTranslating <=> (requests # <<>>)

C10_Witness ==
    /\ event = "settle"
    /\ ~isTranslating
    /\ requests = <<>>

\* the requests of a queue on which the provider has not answered yet
RECURSIVE PendingCount(_)
PendingCount(q) ==
    IF q = <<>> THEN 0
    ELSE (IF Head(q).reply.kind = "pending" THEN 1 ELSE 0) + PendingCount(Tail(q))

\* C11: while a submission is in flight neither a translation result nor an
\* error message is displayed: the valid submit cleared both before posting
\* and nothing writes them until the handler resumes.
C11_InFlightShowsNothing ==
    requests # <<>> => (translationResult = "" /\ errorMessage = "")

C11_Witness ==
    /\ event = "submit"
    /\ requests # <<>>
    /\ isTranslating
    /\ translationResult = ""
    /\ errorMessage = ""

\* C12: a valid submit issues exactly one request, a blank submit none, and
\* no other step (an edit, a provider answer, the handler resuming from a
\* success or a failure) issues or re-issues a request.
C12_NoAutomaticRetry ==
    [][/\ (event' = "submit" /\ Trim(inputText) # <<>>)
           => (Len(requests') = Len(requests) + 1
               /\ PendingCount(requests') = PendingCount(requests) + 1)
       /\ ~(event' = "submit" /\ Trim(inputText) # <<>>)
           => (Len(requests') <= Len(requests)
               /\ PendingCount(requests') <= PendingCount(requests))]_vars

C12_Witness ==
    /\ event = "settle"
    /\ errorMessage = GENERIC_FAILURE
    /\ requests = <<>>
    /\ ~isTranslating

\* C13: in every state in which no submission is in flight (nothing was
\* submitted yet, or the last submission settled as a success, a failure or
\* a validation failure) a submit step is enabled.
C13_SubmitEnabledWhenSettled ==
    requests = <<>> => ENABLED (SubmitBlank \/ SubmitValid)

C13_Witness ==
    /\ event = "submit"
    /\ requests = <<>>
    /\ translationResult = "Hola"
    /\ errorMessage = EMPTY_INPUT_MESSAGE
    /\ ~isTranslating

\* C14: an edit of the text or of a language code leaves the awaited
\* requests (their payloads and their answers), the result, the error
\* message and the in-progress flag unchanged; the answer alone decides what
\* the handler displays when it resumes.
C14_EditsLeaveRequestAndOutcome ==
    [][/\ event' = "edit"
           => /\ requests' = requests
              /\ translationResult' = translationResult
              /\ errorMessage' = errorMessage
              /\ isTranslating' = isTranslating
       /\ \A i \in DOMAIN requests :
            Settled(i) =>
              IF requests[i].reply.kind \in {"ok_text", "ok_nofield"}
              THEN /\ errorMessage' = errorMessage
                   /\ translationResult' =
                        IF requests[i].reply.val # "" THEN requests[i].reply.val
                        ELSE NO_TRANSLATION
              ELSE /\ translationResult' = translationResult
                   /\ errorMessage' =
                        IF requests[i].reply.kind = "err_msg" /\ requests[i].reply.val # ""
                        THEN requests[i].reply.val ELSE GENERIC_FAILURE]_vars

C14_Witness ==
    /\ event = "edit"
    /\ Len(requests) = 1
    /\ requests[1].text = <<"a">>
    /\ inputText = <<SP, SP>>
    /\ requests[1].source_language # originalLanguage
    /\ translationResult = ""
    /\ errorMessage = ""

\* C15: in every state in which no request is outstanding and a valid
\* submission has settled (the handler has just resumed, or a result, which
\* only a resumed handler writes, is displayed) exactly one of the
\* translation result and the error message is non-empty.
C15_ExactlyOneDisplay ==
    (requests = <<>> /\ (event = "settle" \/ translationResult # ""))
        => ((translationResult # "") # (errorMessage # ""))

====
